---------------------------- MODULE Spec2Model ----------------------------
(***************************************************************************)
(* A model of the recurrence-quantification pipeline of AutismPeriodicities*)
(* (RQA.py, GeometricScoring.py).                                          *)
(*                                                                         *)
(* Four specifications share one set of variables; each drives one group   *)
(* and leaves the other groups at their idle values:                       *)
(*   SpecRuns  the run-length automaton getContinuousRuns, one loop        *)
(*             iteration per step;                                         *)
(*   SpecRQA   getRQAVerts, getRQADiags and getRQAStats applied to a       *)
(*             binary matrix;                                              *)
(*   SpecKNN   CSMToBinary, CSMToBinaryMutual and CSM2CRPEps applied to a  *)
(*             distance matrix;                                            *)
(*   SpecGeo   the control flow of getSlidingWindow and                    *)
(*             getPersistencesBlock around their external routines.        *)
(*                                                                         *)
(* Python floats that are ratios of integers are kept as pairs             *)
(* <<numerator, denominator>>.                                             *)
(***************************************************************************)
EXTENDS Integers, Sequences, FiniteSets, TLC

VARIABLES
    \* getContinuousRuns (RQA.py 49-74)
    x, i, state, count, Runs, rpc,
    \* getRQAVerts / getRQADiags / getRQAStats (RQA.py 76-165)
    R, op, ret,
    \* CSMToBinary / CSMToBinaryMutual / CSM2CRPEps (RQA.py 7-47)
    D, Kappa, kop, B1, knnT, B2, kret,
    \* getSlidingWindow / getPersistencesBlock (GeometricScoring.py 49-100)
    entry, nFrames, dim, estimateFreq, derivWin, gpc, xlen, Tau, calls,
    raised, XS, Dcsm, Pers, I, homology, result

runVars == <<x, i, state, count, Runs, rpc>>
rqaVars == <<R, op, ret>>
knnVars == <<D, Kappa, kop, B1, knnT, B2, kret>>
geoVars == <<entry, nFrames, dim, estimateFreq, derivWin, gpc, xlen, Tau,
             calls, raised, XS, Dcsm, Pers, I, homology, result>>
vars == <<runVars, rqaVars, knnVars, geoVars>>

---------------------------------------------------------------------------
(* Bounds of the model.                                                    *)

\* longest input sequence of getContinuousRuns
MaxLen == 10
\* largest N of the N x N binary matrices given to the RQA functions
MaxN == 3
\* in such a matrix the rarer of the two values fills at most MaxMinority
\* entries (every matrix up to 3 x 3 qualifies)
MaxMinority == 4
\* largest N for which the all-zero and all-one N x N matrices are inputs
MaxUniformN == 5
\* largest dmin and vmin
MaxMin == 2
\* largest number of entries (rows times columns) of a distance matrix
MaxCells == 6
\* largest integer Kappa
MaxKappa == 3
\* the entries of a distance matrix are 0..MaxVal
MaxVal == 1
\* the fractional values of Kappa are k/KappaDen, 0 < k < KappaDen
KappaDen == 4
\* longest input series of getSlidingWindow (frames)
MaxFrames == 3
\* largest embedding dimension dim
MaxEmbDim == 2
\* largest derivative window derivWin
MaxDerivWin == 1
\* largest period the fundamental-frequency estimator returns
MaxPeriod == 2
\* births and deaths of the homology routine's features are 0..MaxTime
MaxTime == 2

---------------------------------------------------------------------------
(* Generic helpers.                                                        *)

EmptyDist == [c \in {} |-> 0]

RECURSIVE SumOver(_, _)
\* np.sum over the values f[c], c in S
SumOver(S, f) ==
    IF S = {} THEN 0
    ELSE LET c == CHOOSE c \in S : TRUE
         IN  f[c] + SumOver(S \ {c}, f)

MaxOf(S) == CHOOSE m \in S : \A c \in S : c <= m

BinSeqs(n) == [1..n -> {0, 1}]

BinMatrices(n, m) == [1..n -> [1..m -> {0, 1}]]

---------------------------------------------------------------------------
(* getContinuousRuns, RQA.py 49-74.                                        *)

IN_ZEROS == 0
IN_ONES == 1

\* Runs[count] += 1, creating the key first when it is missing (lines 68-70)
RecordRun(runs, c) ==
    IF c \in DOMAIN runs THEN [runs EXCEPT ![c] = @ + 1]
    ELSE [k \in DOMAIN runs \cup {c} |-> IF k = c THEN 1 ELSE runs[k]]

\* a loop body that keeps counting across a 0: count is not restarted
RunsStepNoRestart(st, xi) ==
    IF st.state = IN_ZEROS
    THEN IF xi = 1
         THEN [state |-> IN_ONES, count |-> st.count + 1, Runs |-> st.Runs]
         ELSE st
    ELSE IF xi = 0
         THEN [state |-> IN_ZEROS, count |-> st.count,
               Runs |-> RecordRun(st.Runs, st.count)]
         ELSE IF xi = 1
              THEN [st EXCEPT !.count = @ + 1]
              ELSE st

\* one iteration of the loop body (lines 62-73) on element xi
RunsStep(st, xi) ==
    IF st.state = IN_ZEROS
    THEN IF xi = 1
         THEN [state |-> IN_ONES, count |-> 1, Runs |-> st.Runs]
         ELSE st
    ELSE IF xi = 0
         THEN [state |-> IN_ZEROS, count |-> st.count,
               Runs |-> RecordRun(st.Runs, st.count)]
         ELSE IF xi = 1
              THEN [st EXCEPT !.count = @ + 1]
              ELSE st

\* the locals before the loop (lines 57-60)
RunsStart == [state |-> IN_ZEROS, count |-> 0, Runs |-> EmptyDist]

RECURSIVE RunsFrom(_, _, _)
RunsFrom(st, xs, k) ==
    IF k > Len(xs) THEN st.Runs
    ELSE RunsFrom(RunsStep(st, xs[k]), xs, k + 1)

\* the whole function: the loop run over xs, returning Runs (line 74)
getContinuousRuns(xs) == RunsFrom(RunsStart, xs, 1)

InitRunsIdle ==
    /\ x = <<>>
    /\ i = 0
    /\ state = IN_ZEROS
    /\ count = 0
    /\ Runs = EmptyDist
    /\ rpc = "idle"

InitRuns ==
    /\ x \in UNION {BinSeqs(n) : n \in 0..MaxLen}
    /\ i = 0
    /\ state = RunsStart.state
    /\ count = RunsStart.count
    /\ Runs = RunsStart.Runs
    /\ rpc = "loop"

\* for i in range(len(x)): one iteration (i is 0-based, x is 1-based here)
LoopIteration ==
    /\ rpc = "loop"
    /\ i < Len(x)
    /\ LET st == RunsStep([state |-> state, count |-> count, Runs |-> Runs],
                          x[i + 1])
       IN  /\ state' = st.state
           /\ count' = st.count
           /\ Runs' = st.Runs
    /\ i' = i + 1
    /\ UNCHANGED <<x, rpc>>

\* a return that first records the run still open at the end of x
ReturnRunsFlushing ==
    /\ rpc = "loop"
    /\ i = Len(x)
    /\ Runs' = IF state = IN_ONES THEN RecordRun(Runs, count) ELSE Runs
    /\ rpc' = "done"
    /\ UNCHANGED <<x, i, state, count>>

\* the loop is exhausted: return Runs (line 74)
ReturnRuns ==
    /\ rpc = "loop"
    /\ i = Len(x)
    /\ rpc' = "done"
    /\ UNCHANGED <<x, i, state, count, Runs>>

NextRuns ==
    \/ LoopIteration /\ UNCHANGED <<rqaVars, knnVars, geoVars>>
    \/ ReturnRuns /\ UNCHANGED <<rqaVars, knnVars, geoVars>>

---------------------------------------------------------------------------
(* getRQAVerts, getRQADiags, zeroDenom, getRQAStats: RQA.py 76-165.        *)

\* R.shape[0]
Shape0(M) == Len(M)

\* R.shape[1]
Shape1(M) == Len(M[1])

\* D = np.zeros((N+1, N+1)); D[0:N, 0:N] = R  (lines 84-86)
PadMatrix(M) ==
    LET N == Shape0(M)
    IN  [r \in 1..(N + 1) |->
            [c \in 1..(N + 1) |-> IF r <= N /\ c <= N THEN M[r][c] ELSE 0]]

\* ndarray.flatten() with its default order 'C': row after row
Flatten(M) ==
    LET rows == Len(M)
        cols == Len(M[1])
    IN  [p \in 1..(rows * cols) |->
            M[((p - 1) \div cols) + 1][((p - 1) % cols) + 1]]

\* lines 84-87
getRQAVerts(M) == getContinuousRuns(Flatten(PadMatrix(M)))

\* np.diagonal(R, k).tolist(): the entries R[t, t+k]
Diagonal(M, k) == [t \in 1..(Shape0(M) - k) |-> M[t][t + k]]

RECURSIVE DiagsInputNoSeparator(_, _)
\* the concatenation of the diagonals with no 0 between them
DiagsInputNoSeparator(M, k) ==
    IF k > Shape1(M) - 1 THEN <<>>
    ELSE Diagonal(M, k) \o DiagsInputNoSeparator(M, k + 1)

RECURSIVE DiagsInput(_, _)
\* for i in range(k, R.shape[1]): x += np.diagonal(R, i).tolist() + [0]
DiagsInput(M, k) ==
    IF k > Shape1(M) - 1 THEN <<>>
    ELSE Diagonal(M, k) \o <<0>> \o DiagsInput(M, k + 1)

\* the diagonals scanned as one sequence with no 0 between them
getRQADiagsNoSeparator(M) == getContinuousRuns(DiagsInputNoSeparator(M, 1))

\* lines 97-100
getRQADiags(M) == getContinuousRuns(DiagsInput(M, 1))

\* a guard that lets a zero denominator through
zeroDenomUnguarded(v) == v

\* lines 102-105
zeroDenom(v) == IF v = 0 THEN 1 ELSE v

\* [I, J] = np.meshgrid(np.arange(N), np.arange(N)) (line 118): with the
\* default indexing 'xy' the first output varies along the columns and the
\* second along the rows.
MeshgridI(N) == [r \in 1..N |-> [c \in 1..N |-> c - 1]]
MeshgridJ(N) == [r \in 1..N |-> [c \in 1..N |-> r - 1]]

\* the elementwise comparison A > B of two arrays of one shape
Greater(A, B) ==
    [r \in 1..Len(A) |-> [c \in 1..Len(A[r]) |-> A[r][c] > B[r][c]]]

\* the mask J > I: the entries strictly below the main diagonal
BelowMask(N) == Greater(MeshgridJ(N), MeshgridI(N))

\* the mask I > J of line 131: the entries strictly above the main diagonal
DetMask(N) == Greater(MeshgridI(N), MeshgridJ(N))

RECURSIVE SumSeq(_, _)
SumSeq(seq, k) == IF k = 0 THEN 0 ELSE seq[k] + SumSeq(seq, k - 1)

\* np.sum of a one-dimensional array
SumArray(seq) == SumSeq(seq, Len(seq))

\* np.sum(R[mask]): the entries of R where the mask is true
SumMasked(M, mask) ==
    SumArray(Flatten([r \in 1..Len(M) |->
                [c \in 1..Len(M[r]) |-> IF mask[r][c] THEN M[r][c] ELSE 0]]))

\* np.sum(R == 1)
CountOnes(M) ==
    SumArray(Flatten([r \in 1..Len(M) |->
                [c \in 1..Len(M[r]) |-> IF M[r][c] = 1 THEN 1 ELSE 0]]))

\* sum of c*dist[c] over the keys c >= atLeast
WeightedSum(dist, atLeast) ==
    LET keys == {c \in DOMAIN dist : c >= atLeast}
    IN  SumOver(keys, [c \in keys |-> c * dist[c]])

\* sum of dist[c] over the keys c >= atLeast
CountSum(dist, atLeast) ==
    LET keys == {c \in DOMAIN dist : c >= atLeast}
    IN  SumOver(keys, [c \in keys |-> dist[c]])

\* lines 117-165, given the Verts and Diags of lines 115-116; every ratio is
\* <<numerator, denominator>>.  ENTR keeps the probabilities ps of line 152,
\* each <<Diags[c], NDiags>>, as a function of c: -sum(ps*log(ps)) is 0
\* exactly when every p is 1 or ps is empty, and positive otherwise (every p
\* is in (0, 1]).
RQAStats(M, Verts, Diags, dmin, vmin) ==
    LET N == Shape0(M)
        SumDiags == WeightedSum(Diags, dmin)
        SumVerts == WeightedSum(Verts, vmin)
        size == Shape0(M) * Shape1(M)
        NDiags == zeroDenom(CountSum(Diags, dmin))
        NVerts == zeroDenom(CountSum(Verts, vmin))
        total == CountSum(Diags, 0)
        ps == [c \in {c \in DOMAIN Diags : c >= dmin} |-> <<Diags[c], NDiags>>]
    IN  [RR    |-> <<CountOnes(M), size>>,
         DET   |-> <<SumDiags, zeroDenom(SumMasked(M, DetMask(N)))>>,
         LAM   |-> <<SumVerts, zeroDenom(WeightedSum(Verts, 0))>>,
         RATIO |-> <<size * SumDiags, zeroDenom(total * total)>>,
         L     |-> <<SumDiags, NDiags>>,
         TT    |-> <<SumVerts, NVerts>>,
         ENTR  |-> ps,
         Lmax  |-> IF DOMAIN Diags # {} THEN MaxOf(DOMAIN Diags) ELSE 0,
         Vmax  |-> IF DOMAIN Verts # {} THEN MaxOf(DOMAIN Verts) ELSE 0,
         Verts |-> Verts,
         Diags |-> Diags,
         dmin  |-> dmin,
         vmin  |-> vmin]

\* -np.sum(ps*np.log(ps)) = 0
EntropyIsZero(ps) == \A c \in DOMAIN ps : ps[c][1] = ps[c][2]

Uniform(n, v) == [r \in 1..n |-> [c \in 1..n |-> v]]

\* the number of entries holding the rarer of the values 0 and 1
Minority(M) ==
    LET ones == CountOnes(M)
        size == Len(M) * Len(M[1])
    IN  IF 2 * ones <= size THEN ones ELSE size - ones

RQAInputs ==
    UNION {{M \in BinMatrices(n, n) : Minority(M) <= MaxMinority} : n \in 1..MaxN}
        \cup {Uniform(n, v) : n \in 1..MaxUniformN, v \in {0, 1}}

InitRQAIdle ==
    /\ R = <<>>
    /\ op = "idle"
    /\ ret = <<>>

InitRQA ==
    /\ R \in RQAInputs
    /\ op = "none"
    /\ ret = <<>>

CallGetRQAVerts ==
    /\ op = "none"
    /\ op' = "getRQAVerts"
    /\ ret' = getRQAVerts(R)
    /\ UNCHANGED R

CallGetRQADiags ==
    /\ op = "none"
    /\ op' = "getRQADiags"
    /\ ret' = getRQADiags(R)
    /\ UNCHANGED R

\* getRQAStats(R, dmin, vmin): Verts and Diags are computed once (lines
\* 115-116), then the statistics
CallGetRQAStats ==
    /\ op = "none"
    /\ \E Verts \in {getRQAVerts(R)}, Diags \in {getRQADiags(R)},
          dmin \in 1..MaxMin, vmin \in 1..MaxMin :
          ret' = RQAStats(R, Verts, Diags, dmin, vmin)
    /\ op' = "getRQAStats"
    /\ UNCHANGED R

NextRQA ==
    \/ CallGetRQAVerts /\ UNCHANGED <<runVars, knnVars, geoVars>>
    \/ CallGetRQADiags /\ UNCHANGED <<runVars, knnVars, geoVars>>
    \/ CallGetRQAStats /\ UNCHANGED <<runVars, knnVars, geoVars>>

---------------------------------------------------------------------------
(* CSMToBinary, CSMToBinaryMutual, CSM2CRPEps: RQA.py 7-47.                *)
(* Kappa is [num, den], the number num/den; a call ends in                 *)
(* [err |-> "none", val |-> matrix] or in [err |-> exception, val |-> <<>>]*)

Returned(v) == [err |-> "none", val |-> v]
Raised(e) == [err |-> e, val |-> <<>>]

\* D.T
Transpose(M) == [c \in 1..Len(M[1]) |-> [r \in 1..Len(M) |-> M[r][c]]]

\* np.round(a/b) for a, b >= 0: to the nearest integer, halves to the even one
RoundHalfEven(a, b) ==
    LET q == a \div b
        rem == a % b
    IN  IF 2 * rem < b THEN q
        ELSE IF 2 * rem > b THEN q + 1
        ELSE IF q % 2 = 0 THEN q ELSE q + 1

\* lines 18-21
NNeighbsOf(K, M) ==
    IF K.num < K.den THEN RoundHalfEven(K.num * M, K.den) ELSE K.num

\* np.argpartition(row, kth)[0:kth]: the first kth indices of some order of
\* the row in which position kth holds the element a full sort would put
\* there, nothing larger comes before it and nothing smaller after it.
\* Which of the equal elements land before position kth is not specified.
ArgPartitionPrefixes(row, kth) ==
    LET cols == 1..Len(row)
    IN  {S \in SUBSET cols :
            /\ Cardinality(S) = kth
            /\ \A a \in S, b \in cols \ S : row[a] <= row[b]}

\* sparse.coo_matrix((V, (I, J)), shape=(N, M)).toarray() with V all ones and
\* (I, J) the pairs (r, c), c in J[r]  (lines 23-27)
CooToArray(J, N, M) ==
    [r \in 1..N |-> [c \in 1..M |-> IF c \in J[r] THEN 1 ELSE 0]]

\* every way a call CSMToBinary(DD, K) can end (lines 14-27).  argpartition
\* raises ValueError when kth is not below the length of the axis.
CSMToBinary(DD, K) ==
    LET N == Len(DD)
        M == Len(DD[1])
        NNeighbs == NNeighbsOf(K, M)
    IN  IF K.num = 0
        THEN {Returned([r \in 1..N |-> [c \in 1..M |-> 1]])}
        ELSE IF NNeighbs >= M
        THEN {Raised("ValueError")}
        ELSE {Returned(CooToArray(J, N, M)) :
                J \in {JJ \in [1..N -> SUBSET (1..M)] :
                         \A r \in 1..N :
                            JJ[r] \in ArgPartitionPrefixes(DD[r], NNeighbs)}}

\* the elementwise OR of two 0/1 matrices
ElementwiseMax(A, B) ==
    [r \in 1..Len(A) |->
        [c \in 1..Len(A[1]) |-> IF A[r][c] >= B[r][c] THEN A[r][c] ELSE B[r][c]]]

\* B1*B2 (line 36)
ElementwiseProduct(A, B) ==
    [r \in 1..Len(A) |-> [c \in 1..Len(A[1]) |-> A[r][c] * B[r][c]]]

\* lines 45-47
CSM2CRPEps(CSM, e) ==
    [r \in 1..Len(CSM) |->
        [c \in 1..Len(CSM[1]) |-> IF CSM[r][c] <= e THEN 1 ELSE 0]]

KappaValues ==
    {[num |-> k, den |-> KappaDen] : k \in 1..(KappaDen - 1)}
        \cup {[num |-> n, den |-> 1] : n \in 0..MaxKappa}

\* the shapes <<N, M>> of the distance matrices
Shapes == {nm \in (1..MaxCells) \X (1..MaxCells) : nm[1] * nm[2] <= MaxCells}

InitKNNIdle ==
    /\ D = <<>>
    /\ Kappa = [num |-> 0, den |-> 1]
    /\ kop = "idle"
    /\ B1 = <<>>
    /\ knnT = <<>>
    /\ B2 = <<>>
    /\ kret = Returned(<<>>)

InitKNN ==
    /\ D \in UNION {[1..nm[1] -> [1..nm[2] -> 0..MaxVal]] : nm \in Shapes}
    /\ Kappa = [num |-> 0, den |-> 1]
    /\ kop = "none"
    /\ B1 = <<>>
    /\ knnT = <<>>
    /\ B2 = <<>>
    /\ kret = Returned(<<>>)

CallCSMToBinary ==
    /\ kop = "none"
    /\ kop' = "CSMToBinary"
    /\ \E K \in KappaValues :
          /\ Kappa' = K
          /\ kret' \in CSMToBinary(D, K)
    /\ UNCHANGED <<D, B1, knnT, B2>>

\* CSMToBinaryMutual, lines 34-36: the first call raised
MutualFirstRaises ==
    /\ kop = "none"
    /\ \E K \in KappaValues :
       \E o1 \in CSMToBinary(D, K) :
          /\ o1.err # "none"
          /\ Kappa' = K
          /\ kret' = o1
    /\ kop' = "CSMToBinaryMutual"
    /\ UNCHANGED <<D, B1, knnT, B2>>

\* CSMToBinaryMutual, lines 34-36: the first call returned B1 and the
\* second raised
MutualSecondRaises ==
    /\ kop = "none"
    /\ \E K \in KappaValues :
       \E o1 \in CSMToBinary(D, K), o2 \in CSMToBinary(Transpose(D), K) :
          /\ o1.err = "none"
          /\ o2.err # "none"
          /\ Kappa' = K
          /\ B1' = o1.val
          /\ kret' = o2
    /\ kop' = "CSMToBinaryMutual"
    /\ UNCHANGED <<D, knnT, B2>>

\* CSMToBinaryMutual, lines 34-36: both calls returned
MutualReturns ==
    /\ kop = "none"
    /\ \E K \in KappaValues :
       \E o1 \in CSMToBinary(D, K), o2 \in CSMToBinary(Transpose(D), K) :
          /\ o1.err = "none"
          /\ o2.err = "none"
          /\ Kappa' = K
          /\ B1' = o1.val
          /\ knnT' = o2.val
          /\ B2' = Transpose(o2.val)
          /\ kret' = Returned(ElementwiseProduct(o1.val, Transpose(o2.val)))
    /\ kop' = "CSMToBinaryMutual"
    /\ UNCHANGED D

CallCSM2CRPEps ==
    /\ kop = "none"
    /\ kop' = "CSM2CRPEps"
    /\ \E e \in 0..MaxVal : kret' = Returned(CSM2CRPEps(D, e))
    /\ UNCHANGED <<D, Kappa, B1, knnT, B2>>

NextKNN ==
    \/ CallCSMToBinary /\ UNCHANGED <<runVars, rqaVars, geoVars>>
    \/ MutualFirstRaises /\ UNCHANGED <<runVars, rqaVars, geoVars>>
    \/ MutualSecondRaises /\ UNCHANGED <<runVars, rqaVars, geoVars>>
    \/ MutualReturns /\ UNCHANGED <<runVars, rqaVars, geoVars>>
    \/ CallCSM2CRPEps /\ UNCHANGED <<runVars, rqaVars, geoVars>>

---------------------------------------------------------------------------
(* getSlidingWindow, getPersistencesBlock: GeometricScoring.py 49-100.     *)
(* The routines of SlidingWindowVideoTDA and sklearn are external: a call  *)
(* of one either returns or raises, and what it returns is kept as a term  *)
(* naming the call.  calls is the set of external routines invoked so far, *)
(* raised the routine whose exception left the entry point ("none" while   *)
(* none did).                                                              *)

\* np.array([[0, 0]]) of line 76
Placeholder == [kind |-> "placeholder", points |-> << <<0, 0>> >>]

\* lines 77-82: the mean-centred, normalised sliding window video
Embedded(frames, window, tau) ==
    [kind |-> "embedded", frames |-> frames, window |-> window, tau |-> tau,
     dT |-> 1]

\* getCSM(XS, XS) (line 90, lines 45-47)
getCSM(cloud) == [csm |-> cloud]

\* an empty feature list as the default
EmptyI == <<>>

\* I = np.array([[0, 0]]) of line 92
DefaultI == << <<0, 0>> >>

\* np.max(I[:, 1] - I[:, 0]) (line 97)
MaxPersistence(II) == MaxOf({II[k][2] - II[k][1] : k \in 1..Len(II)})

\* lines 96-97: Pers stays 0 when the feature list is empty
PersOf(II) == IF Len(II) > 0 THEN MaxPersistence(II) ELSE 0

FeaturePairs == {bd \in (0..MaxTime) \X (0..MaxTime) : bd[1] < bd[2]}

RECURSIVE SortedSeq(_)
\* the pairs of S as a list, in lexicographic order
SortedSeq(S) ==
    IF S = {} THEN <<>>
    ELSE LET m == CHOOSE a \in S : \A b \in S :
                        a[1] < b[1] \/ (a[1] = b[1] /\ a[2] <= b[2])
         IN  <<m>> \o SortedSeq(S \ {m})

\* what doRipsFiltrationDM(D, 1, coeff=41)[1] can be: a list of
\* (birth, death) pairs
FeatureLists == {SortedSeq(S) : S \in SUBSET FeaturePairs}

InitGeoIdle ==
    /\ entry = "idle"
    /\ nFrames = 0
    /\ dim = 1
    /\ estimateFreq = FALSE
    /\ derivWin = -1
    /\ gpc = "idle"
    /\ xlen = 0
    /\ Tau = <<1, 1>>
    /\ calls = {}
    /\ raised = "none"
    /\ XS = <<>>
    /\ Dcsm = <<>>
    /\ Pers = 0
    /\ I = <<>>
    /\ homology = "none"
    /\ result = <<>>

\* the entry point and its arguments; X = np.array(XP) (line 59), Tau = 1
\* (line 65)
InitGeo ==
    /\ entry \in {"getSlidingWindow", "getPersistencesBlock"}
    /\ nFrames \in 0..MaxFrames
    /\ dim \in 1..MaxEmbDim
    /\ estimateFreq \in BOOLEAN
    /\ derivWin \in (-1)..MaxDerivWin
    /\ gpc = "deriv"
    /\ xlen = nFrames
    /\ Tau = <<1, 1>>
    /\ calls = {}
    /\ raised = "none"
    /\ XS = <<>>
    /\ Dcsm = <<>>
    /\ Pers = 0
    /\ I = <<>>
    /\ homology = "none"
    /\ result = <<>>

geoArgs == <<entry, nFrames, dim, estimateFreq, derivWin>>

\* lines 61-62 with derivWin = -1: no derivative
SkipTimeDerivative ==
    /\ gpc = "deriv"
    /\ ~(derivWin > -1)
    /\ gpc' = "freq"
    /\ UNCHANGED <<geoArgs, xlen, Tau, calls, raised, XS, Dcsm, Pers, I,
                   homology, result>>

\* lines 61-62: getTimeDerivative returns a series no longer than X
TimeDerivativeReturns ==
    /\ gpc = "deriv"
    /\ derivWin > -1
    /\ calls' = calls \cup {"getTimeDerivative"}
    /\ xlen' \in 0..xlen
    /\ gpc' = "freq"
    /\ UNCHANGED <<geoArgs, Tau, raised, XS, Dcsm, Pers, I, homology, result>>

\* lines 61-62: getTimeDerivative raises
TimeDerivativeRaises ==
    /\ gpc = "deriv"
    /\ derivWin > -1
    /\ calls' = calls \cup {"getTimeDerivative"}
    /\ raised' = "getTimeDerivative"
    /\ gpc' = "raised"
    /\ UNCHANGED <<geoArgs, xlen, Tau, XS, Dcsm, Pers, I, homology, result>>

\* line 68 with estimateFreq false
SkipEstimate ==
    /\ gpc = "freq"
    /\ ~estimateFreq
    /\ gpc' = "check"
    /\ UNCHANGED <<geoArgs, xlen, Tau, calls, raised, XS, Dcsm, Pers, I,
                   homology, result>>

\* line 69: pca.fit_transform(X) returns
PCAReturns ==
    /\ gpc = "freq"
    /\ estimateFreq
    /\ calls' = calls \cup {"pca.fit_transform"}
    /\ gpc' = "estimate"
    /\ UNCHANGED <<geoArgs, xlen, Tau, raised, XS, Dcsm, Pers, I, homology,
                   result>>

\* line 69: pca.fit_transform(X) raises
PCARaises ==
    /\ gpc = "freq"
    /\ estimateFreq
    /\ calls' = calls \cup {"pca.fit_transform"}
    /\ raised' = "pca.fit_transform"
    /\ gpc' = "raised"
    /\ UNCHANGED <<geoArgs, xlen, Tau, XS, Dcsm, Pers, I, homology, result>>

\* lines 70-72: estimateFundamentalFreq returns maxT; Tau = maxT/float(dim)
EstimateReturns ==
    /\ gpc = "estimate"
    /\ calls' = calls \cup {"estimateFundamentalFreq"}
    /\ \E maxT \in 1..MaxPeriod : Tau' = <<maxT, dim>>
    /\ gpc' = "check"
    /\ UNCHANGED <<geoArgs, xlen, raised, XS, Dcsm, Pers, I, homology, result>>

\* line 70: estimateFundamentalFreq raises
EstimateRaises ==
    /\ gpc = "estimate"
    /\ calls' = calls \cup {"estimateFundamentalFreq"}
    /\ raised' = "estimateFundamentalFreq"
    /\ gpc' = "raised"
    /\ UNCHANGED <<geoArgs, xlen, Tau, XS, Dcsm, Pers, I, homology, result>>

\* lines 75-76: the series is no longer than dim
ReturnPlaceholder ==
    /\ gpc = "check"
    /\ xlen <= dim
    /\ XS' = Placeholder
    /\ gpc' = "embedded"
    /\ UNCHANGED <<geoArgs, xlen, Tau, calls, raised, Dcsm, Pers, I, homology,
                   result>>

\* lines 77-82: getSlidingWindowVideo returns; centre, normalise, return
SlidingWindowVideoReturns ==
    /\ gpc = "check"
    /\ ~(xlen <= dim)
    /\ calls' = calls \cup {"getSlidingWindowVideo"}
    /\ XS' = Embedded(xlen, dim, Tau)
    /\ gpc' = "embedded"
    /\ UNCHANGED <<geoArgs, xlen, Tau, raised, Dcsm, Pers, I, homology, result>>

\* line 77: getSlidingWindowVideo raises
SlidingWindowVideoRaises ==
    /\ gpc = "check"
    /\ ~(xlen <= dim)
    /\ calls' = calls \cup {"getSlidingWindowVideo"}
    /\ raised' = "getSlidingWindowVideo"
    /\ gpc' = "raised"
    /\ UNCHANGED <<geoArgs, xlen, Tau, XS, Dcsm, Pers, I, homology, result>>

\* getSlidingWindow was the entry point: its caller has XS
SlidingWindowDone ==
    /\ gpc = "embedded"
    /\ entry = "getSlidingWindow"
    /\ result' = XS
    /\ gpc' = "done"
    /\ UNCHANGED <<geoArgs, xlen, Tau, calls, raised, XS, Dcsm, Pers, I,
                   homology>>

\* getPersistencesBlock lines 88-92: XS is back; D, Pers and I are set
BlockBeforeHomology ==
    /\ gpc = "embedded"
    /\ entry = "getPersistencesBlock"
    /\ Dcsm' = getCSM(XS)
    /\ Pers' = 0
    /\ I' = DefaultI
    /\ gpc' = "homology"
    /\ UNCHANGED <<geoArgs, xlen, Tau, calls, raised, XS, homology, result>>

\* lines 93-100: doRipsFiltrationDM returns; I = PDs2[1]
HomologyReturns ==
    /\ gpc = "homology"
    /\ calls' = calls \cup {"doRipsFiltrationDM"}
    /\ homology' = "returned"
    /\ \E PD1 \in FeatureLists :
          /\ I' = PD1
          /\ Pers' = PersOf(PD1)
          /\ result' = [D |-> Dcsm, P |-> PersOf(PD1), I |-> PD1]
    /\ gpc' = "done"
    /\ UNCHANGED <<geoArgs, xlen, Tau, raised, XS, Dcsm>>

\* lines 93-100: doRipsFiltrationDM raises; the except clause prints and
\* the function returns what it holds
HomologyRaises ==
    /\ gpc = "homology"
    /\ calls' = calls \cup {"doRipsFiltrationDM"}
    /\ homology' = "raised"
    /\ result' = [D |-> Dcsm, P |-> Pers, I |-> I]
    /\ gpc' = "done"
    /\ UNCHANGED <<geoArgs, xlen, Tau, raised, XS, Dcsm, Pers, I>>

NextGeo ==
    \/ SkipTimeDerivative /\ UNCHANGED <<runVars, rqaVars, knnVars>>
    \/ TimeDerivativeReturns /\ UNCHANGED <<runVars, rqaVars, knnVars>>
    \/ TimeDerivativeRaises /\ UNCHANGED <<runVars, rqaVars, knnVars>>
    \/ SkipEstimate /\ UNCHANGED <<runVars, rqaVars, knnVars>>
    \/ PCAReturns /\ UNCHANGED <<runVars, rqaVars, knnVars>>
    \/ PCARaises /\ UNCHANGED <<runVars, rqaVars, knnVars>>
    \/ EstimateReturns /\ UNCHANGED <<runVars, rqaVars, knnVars>>
    \/ EstimateRaises /\ UNCHANGED <<runVars, rqaVars, knnVars>>
    \/ ReturnPlaceholder /\ UNCHANGED <<runVars, rqaVars, knnVars>>
    \/ SlidingWindowVideoReturns /\ UNCHANGED <<runVars, rqaVars, knnVars>>
    \/ SlidingWindowVideoRaises /\ UNCHANGED <<runVars, rqaVars, knnVars>>
    \/ SlidingWindowDone /\ UNCHANGED <<runVars, rqaVars, knnVars>>
    \/ BlockBeforeHomology /\ UNCHANGED <<runVars, rqaVars, knnVars>>
    \/ HomologyReturns /\ UNCHANGED <<runVars, rqaVars, knnVars>>
    \/ HomologyRaises /\ UNCHANGED <<runVars, rqaVars, knnVars>>

---------------------------------------------------------------------------
(* The specifications.                                                     *)

InitSpecRuns == InitRuns /\ InitRQAIdle /\ InitKNNIdle /\ InitGeoIdle

SpecRuns == InitSpecRuns /\ [][NextRuns]_vars

InitSpecRQA == InitRunsIdle /\ InitRQA /\ InitKNNIdle /\ InitGeoIdle

SpecRQA == InitSpecRQA /\ [][NextRQA]_vars

InitSpecKNN == InitRunsIdle /\ InitRQAIdle /\ InitKNN /\ InitGeoIdle

SpecKNN == InitSpecKNN /\ [][NextKNN]_vars

InitSpecGeo == InitRunsIdle /\ InitRQAIdle /\ InitKNNIdle /\ InitGeo

SpecGeo == InitSpecGeo /\ [][NextGeo]_vars

---------------------------------------------------------------------------
(* Run-length distributions stated directly, for the claims.               *)

\* a maximal run of 1s of length L starts at position s of seq and is
\* followed by a 0
FollowedRunAt(seq, s, L) ==
    /\ s + L <= Len(seq)
    /\ \A k \in s..(s + L - 1) : seq[k] = 1
    /\ s = 1 \/ seq[s - 1] = 0
    /\ seq[s + L] = 0

\* a maximal run of 1s of length L starts at position s of seq; it may end
\* with seq
MaximalRunAt(seq, s, L) ==
    /\ s + L - 1 <= Len(seq)
    /\ \A k \in s..(s + L - 1) : seq[k] = 1
    /\ s = 1 \/ seq[s - 1] = 0
    /\ s + L - 1 = Len(seq) \/ seq[s + L] = 0

\* the distribution {L : n[L]} over the lengths L with n[L] > 0
Distribution(n) == [L \in {l \in DOMAIN n : n[l] > 0} |-> n[L]]

\* the runs of 1s of seq that a 0 follows, by length
FollowedRuns(seq) ==
    Distribution([L \in 1..Len(seq) |->
        Cardinality({s \in 1..Len(seq) : FollowedRunAt(seq, s, L)})])

Column(M, c) == [r \in 1..Len(M) |-> M[r][c]]

\* the runs of 1s along the columns of the zero-padded matrix, by length
ColumnRuns(M) ==
    LET P == PadMatrix(M)
    IN  Distribution([L \in 1..Len(P) |->
            Cardinality({cs \in (1..Len(P)) \X (1..Len(P)) :
                            FollowedRunAt(Column(P, cs[1]), cs[2], L)})])

\* the runs of 1s along the upper off-diagonals k = 1..N-1, each diagonal
\* taken alone and every run counted, by length
DiagonalRuns(M) ==
    LET N == Len(M)
    IN  Distribution([L \in 1..N |->
            Cardinality({ks \in (1..(N - 1)) \X (1..N) :
                            MaximalRunAt(Diagonal(M, ks[1]), ks[2], L)})])

IsAllZero(M) == \A r \in 1..Len(M), c \in 1..Len(M) : M[r][c] = 0

IsAllOnes(M) == \A r \in 1..Len(M), c \in 1..Len(M) : M[r][c] = 1

\* the number of 1-entries strictly above the main diagonal
UpperOnes(M) ==
    Cardinality({rc \in (1..Len(M)) \X (1..Len(M)) :
                    rc[1] < rc[2] /\ M[rc[1]][rc[2]] = 1})

---------------------------------------------------------------------------
(* Claims about the RQA statistics, under SpecRQA.                         *)

\* C1 as stated: for the all-zero N x N matrix getRQAStats yields RR = 0,
\* DET = 1.0, LAM = 1.0, Lmax = 0, Vmax = 0 and ENTR = 0.
C1_AllZeroAsClaimed ==
    (op = "getRQAStats" /\ IsAllZero(R)) =>
        /\ ret.RR[1] = 0
        /\ ret.DET[1] = ret.DET[2]
        /\ ret.LAM[1] = ret.LAM[2]
        /\ ret.Lmax = 0
        /\ ret.Vmax = 0
        /\ EntropyIsZero(ret.ENTR)

\* C1 amended: for the all-zero N x N matrix getRQAStats yields RR = 0,
\* DET = 0/1.0 = 0, LAM = 0/1.0 = 0 (the guard sets the denominator, not the
\* ratio, to 1.0), Lmax = 0, Vmax = 0 and ENTR = 0 (ps is empty).
C1_AllZeroStats ==
    (op = "getRQAStats" /\ IsAllZero(R)) =>
        /\ ret.RR = <<0, Len(R) * Len(R)>>
        /\ ret.DET = <<0, 1>>
        /\ ret.LAM = <<0, 1>>
        /\ ret.Lmax = 0
        /\ ret.Vmax = 0
        /\ DOMAIN ret.ENTR = {}
        /\ EntropyIsZero(ret.ENTR)

C1_Witness == op = "getRQAStats" /\ IsAllZero(R) /\ Len(R) = 3 /\ ret.dmin = 2

\* C2: for every N x N binary matrix R, symmetric or not, getRQAVerts(R) is
\* the distribution of the runs of 1s along the columns of the padded matrix.
C2_VertsAreColumnRuns == op = "getRQAVerts" => ret = ColumnRuns(R)

\* C5: getRQADiags(R) is the sum over the offsets k = 1..N-1 of the runs of
\* the k-th upper off-diagonal taken alone, every run counted and none merged
\* across two offsets; for the all-ones matrix every offset k gives one run
\* of length N-k, and getRQAStats reports Lmax = N-1.
C5_DiagsPerOffset ==
    /\ op = "getRQADiags" => ret = DiagonalRuns(R)
    /\ (op = "getRQADiags" /\ IsAllOnes(R)) =>
            ret = [L \in 1..(Len(R) - 1) |-> 1]
    /\ op = "getRQAStats" => ret.Diags = DiagonalRuns(R)
    /\ (op = "getRQAStats" /\ IsAllOnes(R)) => ret.Lmax = Len(R) - 1

\* a run ends the first off-diagonal and the next entry of the concatenation,
\* the second off-diagonal, is 1 as well
C5_Witness ==
    /\ op = "getRQADiags"
    /\ Len(R) = 3
    /\ R[1][2] = 0 /\ R[2][3] = 1 /\ R[1][3] = 1
    /\ ret = [L \in {1} |-> 2]

\* C10: for every N x N binary matrix and every dmin, vmin >= 1, DET and LAM
\* are in [0, 1]: SumDiags is at most the number of 1-entries strictly above
\* the main diagonal, SumVerts at most the sum of c*count(c) over all vertical
\* runs, and DET (LAM) is 0 when its denominator was guarded.
C10_DetLamInUnitInterval ==
    op = "getRQAStats" =>
        /\ 0 <= ret.DET[1] /\ ret.DET[1] <= ret.DET[2] /\ ret.DET[2] > 0
        /\ ret.DET[1] <= UpperOnes(R)
        /\ UpperOnes(R) = 0 => ret.DET = <<0, 1>>
        /\ 0 <= ret.LAM[1] /\ ret.LAM[1] <= ret.LAM[2] /\ ret.LAM[2] > 0
        /\ ret.LAM[1] <= WeightedSum(ret.Verts, 0)
        /\ WeightedSum(ret.Verts, 0) = 0 => ret.LAM = <<0, 1>>

\* a matrix that is not symmetric, with DET strictly between 0 and 1
C10_Witness ==
    /\ op = "getRQAStats"
    /\ R # Transpose(R)
    /\ 0 < ret.DET[1] /\ ret.DET[1] < ret.DET[2]
    /\ 0 < ret.LAM[1] /\ ret.LAM[1] < ret.LAM[2]

---------------------------------------------------------------------------
(* Claims about the recurrence binarizer, under SpecKNN.                   *)

\* Kappa is a fraction strictly between 0 and 1
IsFraction(K) == 0 < K.num /\ K.num < K.den

\* Kappa is an integer count between 1 and M
IsCount(K, M) == K.den = 1 /\ 1 <= K.num /\ K.num <= M

\* C6: for every N x M matrix D and every Kappa > 0 (a fraction, giving
\* NNeighbs = round(Kappa*M), or an integer count 1 <= Kappa <= M),
\* CSMToBinary(D, Kappa) returns without error an N x M matrix of 0s and 1s
\* with exactly NNeighbs 1s in every row, and in no row is a column marked 0
\* strictly smaller in D than a column marked 1.
C6_RowsHaveNNeighbs ==
    LET N == Len(D)
        M == Len(D[1])
        NNeighbs == IF IsFraction(Kappa)
                    THEN RoundHalfEven(Kappa.num * M, Kappa.den)
                    ELSE Kappa.num
    IN  (kop = "CSMToBinary" /\ (IsFraction(Kappa) \/ IsCount(Kappa, M))) =>
            /\ kret.err = "none"
            /\ Len(kret.val) = N
            /\ \A r \in 1..N :
                  /\ Len(kret.val[r]) = M
                  /\ \A c \in 1..M : kret.val[r][c] \in {0, 1}
                  /\ SumArray(kret.val[r]) = NNeighbs
                  /\ \A a, b \in 1..M :
                        (kret.val[r][a] = 1 /\ kret.val[r][b] = 0)
                            => ~(D[r][b] < D[r][a])

\* C8: for every N x M matrix D and Kappa > 0, whenever CSMToBinaryMutual
\* returns, its entry (i,j) is 1 if and only if entry (i,j) of its call
\* CSMToBinary(D, Kappa) and entry (j,i) of its call CSMToBinary(D.T, Kappa)
\* are both 1; the mutual matrix is entrywise <= the one-directional matrix
\* and every row has at most NNeighbs 1s.
C8_MutualIsEntrywiseAnd ==
    LET N == Len(D)
        M == Len(D[1])
    IN  (kop = "CSMToBinaryMutual" /\ Kappa.num > 0 /\ kret.err = "none") =>
            /\ \A r \in 1..N : SumArray(B1[r]) = NNeighbsOf(Kappa, M)
            /\ \A c \in 1..M : SumArray(knnT[c]) = NNeighbsOf(Kappa, N)
            /\ Len(kret.val) = N
            /\ \A r \in 1..N :
                  /\ Len(kret.val[r]) = M
                  /\ SumArray(kret.val[r]) <= NNeighbsOf(Kappa, M)
                  /\ \A c \in 1..M :
                        /\ kret.val[r][c] \in {0, 1}
                        /\ kret.val[r][c] = 1 <=> (B1[r][c] = 1 /\ knnT[c][r] = 1)
                        /\ kret.val[r][c] <= B1[r][c]

\* a matrix that is not square, with a reciprocated pair and a pair that is
\* a neighbour in one direction only
C8_Witness ==
    /\ kop = "CSMToBinaryMutual"
    /\ kret.err = "none"
    /\ Kappa.num > 0
    /\ Len(D) = 2 /\ Len(D[1]) = 3
    /\ \E r \in 1..2, c \in 1..3 : kret.val[r][c] = 1
    /\ \E r \in 1..2, c \in 1..3 : B1[r][c] = 1 /\ kret.val[r][c] = 0
    /\ \E r \in 1..2, c \in 1..3 : B1[r][c] = 0 /\ knnT[c][r] = 1

---------------------------------------------------------------------------
(* Claims about getContinuousRuns, under SpecRuns.                         *)

ExampleSequence == <<0, 1, 1, 0, 1, 0, 0, 1, 1, 1>>

---------------------------------------------------------------------------
(* Claims about the embedder and the persistence scorer, under SpecGeo.    *)

\* C7 as stated: when the homology routine fails inside
\* getPersistencesBlock, the error does not propagate and the call returns
\* P = 0 with an empty feature list I, alongside D.
C7_FailureAsClaimed ==
    (gpc = "done" /\ homology = "raised") =>
        /\ raised = "none"
        /\ result.P = 0
        /\ result.I = <<>>
        /\ result.D = getCSM(XS)

\* C7 amended: when the homology routine fails inside getPersistencesBlock,
\* the error does not propagate and the call returns P = 0 with the default
\* feature list I = [[0, 0]] (one pair, birth 0 and death 0), alongside D.
C7_FailureDegrades ==
    /\ homology = "raised" => (gpc = "done" /\ raised = "none")
    /\ (gpc = "done" /\ homology = "raised") =>
          /\ result.P = 0
          /\ result.I = << <<0, 0>> >>
          /\ result.D = getCSM(XS)

C7_Witness ==
    /\ entry = "getPersistencesBlock"
    /\ gpc = "done"
    /\ homology = "raised"
    /\ XS.kind = "embedded"

\* C9: in every call of getSlidingWindow where the series has length <= dim,
\* whatever estimateFreq, the result is the placeholder cloud and neither the
\* principal-component projection, nor the period estimator, nor the sliding
\* window construction is invoked, so the call does not end in an error.
C9_DegenerateDecidedFirst ==
    (gpc \in {"estimate", "check", "embedded", "homology", "done", "raised"}
        /\ raised # "getTimeDerivative"
        /\ xlen <= dim) =>
        /\ "pca.fit_transform" \notin calls
        /\ "estimateFundamentalFreq" \notin calls
        /\ "getSlidingWindowVideo" \notin calls
        /\ raised = "none"
        /\ gpc \in {"embedded", "homology", "done"} => XS = Placeholder

===========================================================================
